---- MODULE Spec2Model ----
(***************************************************************************)
(* The Unix update steps of topgrade (src/steps/os/unix.rs) as a state     *)
(* machine.  The orchestrator is single threaded: one step runs at a time. *)
(* A step is a sequence of statements; every statement that talks to the   *)
(* outside world (a probe of the search path or of the file system, a      *)
(* process that exits with some status) is one atomic transition whose     *)
(* answer is drawn when the statement runs.  While a step runs no other    *)
(* step is enabled, so a step's transitions are exactly the statements of  *)
(* its function body, in program order.                                    *)
(*                                                                         *)
(* The executor, the requirement resolver and the execution context live   *)
(* in other files of the crate (crate::executor, crate::utils,             *)
(* crate::execution_context, crate::terminal); they are modelled from      *)
(* their documented contract.                                              *)
(***************************************************************************)
EXTENDS Integers, Sequences, FiniteSets, TLC

VARIABLES
    run_type,     \* ctx.run_type(): "Dry" (simulate) or "Wet" (execute)
    sudo,         \* ctx.sudo(): Option<PathBuf>
    config,       \* ctx.config(): the parsed configuration
    target_os,    \* cfg!(target_os)
    target_arch,  \* cfg!(target_arch)
    step,         \* the step function that is running or has just ended
    pc,           \* "idle", a statement label of the running step, or "done"
    locals,       \* the running step's local bindings
    probes,       \* requirement probes made by the step, in order
    calls,        \* commands handed to an executor or to Command, in order
    sink,         \* the reporting sink: separators and dry-run previews
    outcome       \* the step's Result

ctxvars == <<run_type, sudo, config, target_os, target_arch>>

vars == <<run_type, sudo, config, target_os, target_arch,
          step, pc, locals, probes, calls, sink, outcome>>

(***************************************************************************)
(* Values                                                                  *)
(***************************************************************************)

RunTypes == {"Dry", "Wet"}

\* Option<T>
None == [some |-> FALSE, val |-> <<>>]

Some(v) == [some |-> TRUE, val |-> v]

\* Exit codes a process may end with; 42 is the code run_asdf singles out.
ExitCodes == {0, 1, 41, 42, 43}

\* ExecutorExitStatus::Dry
Simulated == [kind |-> "simulated", code |-> {}]

\* What the operating system answers to a spawn: the process exits with a
\* code, is ended by a signal (no code), or cannot be started at all.
ProcResults ==
    {[kind |-> "exited", code |-> {c}] : c \in ExitCodes}
        \cup {[kind |-> "signaled", code |-> {}], [kind |-> "spawn_failed", code |-> {}]}

\* ExitStatus::success()
success(e) == e.kind = "exited" /\ e.code = {0}

\* A process was created for this call.
Spawned(c) == c.result.kind \in {"exited", "signaled"}

\* A run type and where the step took it from: the context (or the
\* run_type parameter the orchestrator fills from it), or a literal.
ctx_run_type == [mode |-> run_type, from_ctx |-> TRUE]

RunType_Wet == [mode |-> "Wet", from_ctx |-> FALSE]

\* Path::join on paths kept as component sequences
join(p, q) == Append(p, q)

home_dir == <<"$HOME">>

\* Result<(), Error>
Ok == [kind |-> "Ok", reason |-> <<>>]

SkipStep(reason) == [kind |-> "Skip", reason |-> reason]

ProcessFailed == [kind |-> "ProcessFailed", reason |-> <<>>]

SpawnFailed == [kind |-> "SpawnFailed", reason |-> <<>>]

Fatal(reason) == [kind |-> "Fatal", reason |-> reason]

(***************************************************************************)
(* The step frame: the step-local part of the state, threaded through the  *)
(* statements of one transition.  err is the Result of the last fallible   *)
(* call; the ? operator makes every later statement of the transition a    *)
(* no-op once err is an error.                                             *)
(***************************************************************************)

NoLocals ==
    [variant |-> "none", intel_exists |-> FALSE, arm_exists |-> FALSE,
     env |-> [state |-> "unread", value |-> ""], should_upgrade |-> FALSE, should_self_upgrade |-> FALSE,
     multi_user |-> FALSE, cask_upgrade_exists |-> FALSE,
     ini |-> "unread", selfupdate_enabled |-> "none"]

Cur ==
    [locals |-> locals, probes |-> probes, calls |-> calls, sink |-> sink, err |-> Ok]

Failed(f) == f.err.kind # "Ok"

\* terminal::print_separator
print_separator(f, title) ==
    IF Failed(f) THEN f
    ELSE [f EXCEPT !.sink = Append(@, [kind |-> "separator", text |-> title])]

(***************************************************************************)
(* Requirement resolver (crate::utils)                                     *)
(***************************************************************************)

\* utils::require(binary) followed by ?: Found(path) or Missing(reason).
require(f, name, found) ==
    IF Failed(f) THEN f
    ELSE [f EXCEPT
            !.probes = Append(@, [kind |-> "binary", name |-> name, found |-> found]),
            !.err = IF found THEN Ok ELSE SkipStep(<<"Cannot find in PATH">> \o name)]

\* PathExt::require followed by ?: the path if it exists.
require_path(f, path, exists) ==
    IF Failed(f) THEN f
    ELSE [f EXCEPT
            !.probes = Append(@, [kind |-> "path", name |-> path, found |-> exists]),
            !.err = IF exists THEN Ok ELSE SkipStep(<<"Path doesn't exist">> \o path)]

\* utils::require_option(option, cause) followed by ?
require_option(f, option, cause) ==
    IF Failed(f) THEN f
    ELSE [f EXCEPT
            !.probes = Append(@, [kind |-> "option", name |-> cause, found |-> option.some]),
            !.err = IF option.some THEN Ok ELSE SkipStep(cause)]

(***************************************************************************)
(* Executor (crate::executor)                                              *)
(***************************************************************************)

\* RunType::execute(program): an Executor bound to the run type.
execute(rt, program) == [mode |-> rt.mode, gated |-> rt.from_ctx, argv |-> program]

\* std::process::Command::new(program): a plain command, no run type.
Command_new(program) == [mode |-> "Wet", gated |-> FALSE, argv |-> program]

arg(ex, a) == [ex EXCEPT !.argv = Append(@, a)]

args(ex, as) == [ex EXCEPT !.argv = @ \o as]

\* What running the command can answer: nothing is spawned in a dry run.
Answers(ex) == IF ex.mode = "Dry" THEN {Simulated} ELSE ProcResults

\* Running a command: a dry run prints the command to the sink and spawns
\* nothing; a wet run spawns and waits.  err is the io::Error of a failed
\* spawn.  via names the method the step called.
run(f, ex, r, via) ==
    IF Failed(f) THEN f
    ELSE [f EXCEPT
            !.calls = Append(@, [argv |-> ex.argv, gated |-> ex.gated,
                                 via |-> via, result |-> r]),
            !.sink = IF ex.mode = "Dry"
                     THEN Append(@, [kind |-> "preview", text |-> ex.argv])
                     ELSE @,
            !.err = IF r.kind = "spawn_failed" THEN SpawnFailed ELSE Ok]

\* An unsuccessful exit status becomes TopgradeError::ProcessFailed.
checked(f, r) ==
    IF Failed(f) THEN f
    ELSE [f EXCEPT !.err = IF r.kind = "simulated" \/ success(r) THEN Ok ELSE ProcessFailed]

\* Executor::spawn()?.wait()?: the exit status, unchecked
spawn_wait(f, ex, r) == run(f, ex, r, "spawn")

\* Executor::check_run / CommandExt::check_run
check_run(f, ex, r) == checked(run(f, ex, r, "check_run"), r)

\* CommandExt::check_output: the captured standard output of a successful
\* run, an error otherwise.
check_output(f, ex, r) == checked(run(f, ex, r, "check_output"), r)

\* ExecutionContext::execute_elevated(command) followed by ?: the command
\* prefixed by the elevation helper, which is required.
execute_elevated(f, command) ==
    require_option(f, sudo, <<"Sudo is required to run this step">>)

elevated(command) == execute(ctx_run_type, sudo.val \o command)

(***************************************************************************)
(* Transitions of a step                                                   *)
(***************************************************************************)

Commit(name, f, next) ==
    /\ step' = name
    /\ locals' = f.locals
    /\ probes' = f.probes
    /\ calls' = f.calls
    /\ sink' = f.sink
    /\ UNCHANGED ctxvars
    /\ IF Failed(f)
       THEN pc' = "done" /\ outcome' = f.err
       ELSE IF next = "return"
            THEN pc' = "done" /\ outcome' = [kind |-> "Success", reason |-> <<>>]
            ELSE pc' = next /\ outcome' = outcome

\* The statement at label l of step name is the next to run.
At(name, l) == step = name /\ pc = l

\* No step is running: the orchestrator may call any step function.
Idle == pc = "idle"

(***************************************************************************)
(* Steps                                                                   *)
(***************************************************************************)

\* BrewVariant, and the variants the orchestrator passes on each platform
BrewVariants == IF target_os = "macos" THEN {"Path", "MacIntel", "MacArm"} ELSE {"Path"}

INTEL_BREW == "/usr/local/bin/brew"

ARM_BREW == "/opt/homebrew/bin/brew"

\* A brew that is neither of the two well-known installations
CUSTOM_BREW == "/home/linuxbrew/.linuxbrew/bin/brew"

binary_name(variant) ==
    CASE variant = "Path" -> "brew"
      [] variant = "MacIntel" -> INTEL_BREW
      [] variant = "MacArm" -> ARM_BREW

is_path(variant) == variant = "Path"

\* both_both_exist with || written for &&
either_exists(intel_exists, arm_exists) == intel_exists \/ arm_exists

both_both_exist(intel_exists, arm_exists) == intel_exists /\ arm_exists

step_title(variant, intel_exists, arm_exists) ==
    LET both_exists == both_both_exist(intel_exists, arm_exists) IN
    CASE variant = "MacArm" /\ both_exists -> "Brew (ARM)"
      [] variant = "MacIntel" /\ both_exists -> "Brew (Intel)"
      [] OTHER -> "Brew"

\* BrewVariant::execute with the flags of the two translations exchanged
brew_execute_swapped(variant, rt) ==
    CASE variant = "MacIntel" /\ target_arch = "aarch64" ->
            arg(arg(execute(rt, <<"arch">>), "-arm64e"), binary_name(variant))
      [] variant = "MacArm" /\ target_arch = "x86_64" ->
            arg(arg(execute(rt, <<"arch">>), "-x86_64"), binary_name(variant))
      [] OTHER -> execute(rt, <<binary_name(variant)>>)

\* BrewVariant::execute
brew_execute(variant, rt) ==
    CASE variant = "MacIntel" /\ target_arch = "aarch64" ->
            arg(arg(execute(rt, <<"arch">>), "-x86_64"), binary_name(variant))
      [] variant = "MacArm" /\ target_arch = "x86_64" ->
            arg(arg(execute(rt, <<"arch">>), "-arm64e"), binary_name(variant))
      [] OTHER -> execute(rt, <<binary_name(variant)>>)

is_macos_custom(path) == ~(path = INTEL_BREW \/ path = ARM_BREW)

\* std::env::var: Ok(value), Err(NotPresent) or Err(NotUnicode)
EnvResult(values) ==
    {[state |-> "NotPresent", value |-> ""],
     [state |-> "NotUnicode", value |-> "<bytes that are not UTF-8>"]}
        \cup {[state |-> "Ok", value |-> v] : v \in values}

is_err(e) == e.state # "Ok"

\* The step reads the variable: the value it found is kept for the step.
read_env(f, e) == IF Failed(f) THEN f ELSE [f EXCEPT !.locals.env = e]

\* return Err(e)
fail(f, e) == IF Failed(f) THEN f ELSE [f EXCEPT !.err = e]

\* A Result bound to a variable instead of being propagated with ?
caught(f) == [f EXCEPT !.err = Ok]

\* Option::unwrap
unwrap(f, option) ==
    fail(f, IF option.some THEN Ok ELSE [kind |-> "Panic", reason |-> <<"unwrap on None">>])

run_fisher ==
    \/ /\ Idle
       /\ \E found, exists \in BOOLEAN, e \in EnvResult({"/opt/fisher"}) :
            LET a == read_env(require(Cur, <<"fish">>, found), e)
                b == IF is_err(e)
                     THEN require_path(a, join(home_dir, ".config/fish/functions/fisher.fish"),
                                       exists)
                     ELSE a
                c == print_separator(b, <<"Fisher">>)
            IN  Commit("fisher", c, "update")
    \/ /\ At("fisher", "update")
       /\ LET ex == args(execute(ctx_run_type, <<"fish">>), <<"-c", "fisher update">>) IN
          \E r \in Answers(ex) : Commit("fisher", check_run(Cur, ex, r), "return")

\* ctx.config().bashit_branch()
bashit_branch == "stable"

run_bashit ==
    \/ /\ Idle
       /\ \E exists \in BOOLEAN :
            LET a == require_path(Cur, join(home_dir, ".bash_it"), exists)
                b == print_separator(a, <<"Bash-it">>)
            IN  Commit("bashit", b, "update")
    \/ /\ At("bashit", "update")
       /\ LET ex == args(execute(ctx_run_type, <<"bash">>),
                         <<"-lic", "bash-it update", bashit_branch>>) IN
          \E r \in Answers(ex) : Commit("bashit", check_run(Cur, ex, r), "return")

run_oh_my_fish ==
    \/ /\ Idle
       /\ \E found, exists \in BOOLEAN :
            LET a == require(Cur, <<"fish">>, found)
                b == require_path(a, join(home_dir, ".local/share/omf/pkg/omf/functions/omf.fish"),
                                  exists)
                c == print_separator(b, <<"oh-my-fish">>)
            IN  Commit("oh_my_fish", c, "update")
    \/ /\ At("oh_my_fish", "update")
       /\ LET ex == args(execute(ctx_run_type, <<"fish">>), <<"-c", "omf update">>) IN
          \E r \in Answers(ex) : Commit("oh_my_fish", check_run(Cur, ex, r), "return")

\* The command run_pkgin builds for one pkgin verb
pkgin_command(verb) ==
    LET command == arg(arg(execute(ctx_run_type, sudo.val), "pkgin"), verb) IN
    IF config.yes THEN arg(command, "-y") ELSE command

run_pkgin ==
    \/ /\ Idle
       /\ \E found \in BOOLEAN :
            LET a == require(Cur, <<"pkgin">>, found)
                b == unwrap(a, sudo)
            IN  Commit("pkgin", b, "update")
    \/ /\ At("pkgin", "update")
       /\ LET ex == pkgin_command("update") IN
          \E r \in Answers(ex) :
            LET a == check_run(Cur, ex, r)
                b == unwrap(a, sudo)
            IN  Commit("pkgin", b, "upgrade")
    \/ /\ At("pkgin", "upgrade")
       /\ LET ex == pkgin_command("upgrade") IN
          \E r \in Answers(ex) : Commit("pkgin", check_run(Cur, ex, r), "return")

run_fish_plug ==
    \/ /\ Idle
       /\ \E found, exists \in BOOLEAN :
            LET a == require(Cur, <<"fish">>, found)
                b == require_path(a, join(home_dir,
                        ".local/share/fish/plug/kidonng/fish-plug/functions/plug.fish"), exists)
                c == print_separator(b, <<"fish-plug">>)
            IN  Commit("fish_plug", c, "update")
    \/ /\ At("fish_plug", "update")
       /\ LET ex == args(execute(ctx_run_type, <<"fish">>), <<"-c", "plug update">>) IN
          \E r \in Answers(ex) : Commit("fish_plug", check_run(Cur, ex, r), "return")

\* Values of XDG_CURRENT_DESKTOP, and str::contains("GNOME") on them
DesktopValues == {"GNOME", "ubuntu:GNOME", "KDE"}

contains_GNOME(p) == p \in {"GNOME", "ubuntu:GNOME"}

\* env::var("XDG_CURRENT_DESKTOP").ok().filter(|p| p.contains("GNOME"))
gnome_desktop(e) == IF ~is_err(e) /\ contains_GNOME(e.value) THEN Some(<<e.value>>) ELSE None

upgrade_gnome_extensions ==
    \/ /\ Idle
       /\ target_os \notin {"android", "macos"}
       /\ \E found \in BOOLEAN, e \in EnvResult(DesktopValues) :
            LET a == read_env(require(Cur, <<"gdbus">>, found), e)
                b == require_option(a, gnome_desktop(e),
                                    <<"Desktop doest not appear to be gnome">>)
            IN  Commit("gnome_extensions", b, "list_names")
    \/ /\ At("gnome_extensions", "list_names")
       /\ LET ex == args(Command_new(<<"gdbus">>),
                         <<"call", "--session", "--dest", "org.freedesktop.DBus",
                           "--object-path", "/org/freedesktop/DBus", "--method",
                           "org.freedesktop.DBus.ListActivatableNames">>) IN
          \E r \in Answers(ex), registered \in BOOLEAN :
            LET a == check_output(Cur, ex, r)
                b == IF ~registered
                     THEN fail(a, SkipStep(<<"Gnome shell extensions are unregistered in DBus">>))
                     ELSE a
                c == print_separator(b, <<"Gnome Shell extensions">>)
            IN  Commit("gnome_extensions", c, "check_for_updates")
    \/ /\ At("gnome_extensions", "check_for_updates")
       /\ LET ex == args(execute(ctx_run_type, <<"gdbus">>),
                         <<"call", "--session", "--dest", "org.gnome.Shell.Extensions",
                           "--object-path", "/org/gnome/Shell/Extensions", "--method",
                           "org.gnome.Shell.Extensions.CheckForUpdates">>) IN
          \E r \in Answers(ex) : Commit("gnome_extensions", check_run(Cur, ex, r), "return")

\* What `which` resolves a brew variant's binary to, given the files present
\* (nothing when the search finds none).
BrewResolutions(variant, intel_exists, arm_exists) ==
    {None} \cup
    CASE variant = "MacIntel" -> IF intel_exists THEN {Some(INTEL_BREW)} ELSE {}
      [] variant = "MacArm" -> IF arm_exists THEN {Some(ARM_BREW)} ELSE {}
      [] OTHER -> {Some(CUSTOM_BREW)}
                    \cup (IF intel_exists THEN {Some(INTEL_BREW)} ELSE {})
                    \cup (IF arm_exists THEN {Some(ARM_BREW)} ELSE {})

\* The common head of run_brew_formula and run_brew_cask: require the
\* binary, skip the stock macOS installations for the Path variant.
brew_require(f, variant, resolved) ==
    LET a == require(f, <<binary_name(variant)>>, resolved.some) IN
    IF target_os = "macos" /\ resolved.some /\ is_path(variant)
          /\ ~is_macos_custom(resolved.val)
    THEN fail(a, SkipStep(<<"Not a custom brew for macOS">>))
    ELSE a

\* The file system and the variant a brew step was called with
brew_locals(f, variant, intel_exists, arm_exists) ==
    [f EXCEPT !.locals.variant = variant,
              !.locals.intel_exists = intel_exists,
              !.locals.arm_exists = arm_exists]

brew_formula_begin ==
    /\ Idle
    /\ \E variant \in BrewVariants, intel_exists, arm_exists \in BOOLEAN :
         \E resolved \in BrewResolutions(variant, intel_exists, arm_exists) :
            LET a == brew_locals(Cur, variant, intel_exists, arm_exists)
                b == brew_require(a, variant, resolved)
                c == print_separator(b, <<step_title(variant, intel_exists, arm_exists)>>)
            IN  Commit("brew_formula", c, "update")

\* Where run_brew_formula goes after `upgrade`, and after `cleanup`
brew_formula_after_upgrade ==
    IF config.cleanup THEN "cleanup"
    ELSE IF config.brew_autoremove THEN "autoremove" ELSE "return"

brew_formula_after_cleanup == IF config.brew_autoremove THEN "autoremove" ELSE "return"

\* brew_formula_update with the Result of `brew update` dropped
brew_formula_update_unchecked ==
    /\ At("brew_formula", "update")
    /\ LET ex == arg(brew_execute(locals.variant, ctx_run_type), "update") IN
       \E r \in Answers(ex) : Commit("brew_formula", caught(check_run(Cur, ex, r)), "upgrade")

brew_formula_update ==
    /\ At("brew_formula", "update")
    /\ LET ex == arg(brew_execute(locals.variant, ctx_run_type), "update") IN
       \E r \in Answers(ex) : Commit("brew_formula", check_run(Cur, ex, r), "upgrade")

brew_formula_upgrade ==
    /\ At("brew_formula", "upgrade")
    /\ LET ex == args(brew_execute(locals.variant, ctx_run_type),
                      <<"upgrade", "--ignore-pinned", "--formula">>) IN
       \E r \in Answers(ex) :
          Commit("brew_formula", check_run(Cur, ex, r), brew_formula_after_upgrade)

brew_formula_cleanup ==
    /\ At("brew_formula", "cleanup")
    /\ LET ex == arg(brew_execute(locals.variant, ctx_run_type), "cleanup") IN
       \E r \in Answers(ex) :
          Commit("brew_formula", check_run(Cur, ex, r), brew_formula_after_cleanup)

brew_formula_autoremove ==
    /\ At("brew_formula", "autoremove")
    /\ LET ex == arg(brew_execute(locals.variant, ctx_run_type), "autoremove") IN
       \E r \in Answers(ex) : Commit("brew_formula", check_run(Cur, ex, r), "return")

run_brew_formula ==
    \/ brew_formula_begin
    \/ brew_formula_update
    \/ brew_formula_upgrade
    \/ brew_formula_cleanup
    \/ brew_formula_autoremove

\* The arguments run_brew_cask upgrades with
brew_cask_args(cask_upgrade_exists) ==
    IF cask_upgrade_exists
    THEN <<"cu", "-y">> \o (IF config.brew_cask_greedy THEN <<"-a">> ELSE <<>>)
    ELSE <<"upgrade", "--cask">> \o (IF config.brew_cask_greedy THEN <<"--greedy">> ELSE <<>>)

run_brew_cask ==
    \/ /\ Idle
       /\ target_os = "macos"
       /\ \E variant \in BrewVariants, intel_exists, arm_exists \in BOOLEAN :
            \E resolved \in BrewResolutions(variant, intel_exists, arm_exists) :
               LET a == brew_locals(Cur, variant, intel_exists, arm_exists)
                   b == brew_require(a, variant, resolved)
                   c == print_separator(b, <<step_title(variant, intel_exists, arm_exists),
                                             " - Cask">>)
               IN  Commit("brew_cask", c, "repository")
    \/ /\ At("brew_cask", "repository")
       /\ LET ex == args(brew_execute(locals.variant, RunType_Wet),
                         <<"--repository", "buo/cask-upgrade">>) IN
          \E r \in Answers(ex), exists \in BOOLEAN :
            LET a == check_output(Cur, ex, r)
                b == IF Failed(a) THEN a ELSE [a EXCEPT !.locals.cask_upgrade_exists = exists]
            IN  Commit("brew_cask", b, "upgrade")
    \/ /\ At("brew_cask", "upgrade")
       /\ LET ex == args(brew_execute(locals.variant, ctx_run_type),
                         brew_cask_args(locals.cask_upgrade_exists)) IN
          \E r \in Answers(ex) :
            Commit("brew_cask", check_run(Cur, ex, r),
                   IF config.cleanup THEN "cleanup" ELSE "return")
    \/ /\ At("brew_cask", "cleanup")
       /\ LET ex == arg(brew_execute(locals.variant, ctx_run_type), "cleanup") IN
          \E r \in Answers(ex) : Commit("brew_cask", check_run(Cur, ex, r), "return")

\* run_guix with the result of require("guix") not propagated
guix_begin_unchecked ==
    /\ Idle
    /\ \E found \in BOOLEAN : Commit("guix", caught(require(Cur, <<"guix">>, found)), "pull")

guix_begin ==
    /\ Idle
    /\ \E found \in BOOLEAN : Commit("guix", require(Cur, <<"guix">>, found), "pull")

\* guix pull, its Result bound to `output`; the step goes on only if it is Ok
guix_pull ==
    /\ At("guix", "pull")
    /\ LET ex == arg(Command_new(<<"guix">>), "pull") IN
       \E r \in Answers(ex) :
          LET output == check_output(Cur, ex, r)
              should_upgrade == ~Failed(output)
              a == [caught(output) EXCEPT !.locals.should_upgrade = should_upgrade]
              b == print_separator(a, <<"Guix">>)
              c == IF should_upgrade THEN b
                   ELSE fail(b, SkipStep(<<"Guix Pull Failed, Skipping">>))
          IN  Commit("guix", c, "package_u")

\* run_guix with a failed `guix package -u` reported as a Skip
guix_package_skips ==
    /\ At("guix", "package_u")
    /\ LET ex == args(execute(ctx_run_type, <<"guix">>), <<"package", "-u">>) IN
       \E r \in Answers(ex) :
          LET a == check_run(Cur, ex, r) IN
          Commit("guix", IF Failed(a) THEN [a EXCEPT !.err = SkipStep(<<"Guix Upgrade Failed">>)]
                         ELSE a, "return")

guix_package ==
    /\ At("guix", "package_u")
    /\ LET ex == args(execute(ctx_run_type, <<"guix">>), <<"package", "-u">>) IN
       \E r \in Answers(ex) : Commit("guix", check_run(Cur, ex, r), "return")

run_guix == guix_begin \/ guix_pull \/ guix_package

run_yadm ==
    \/ /\ Idle
       /\ \E found \in BOOLEAN :
            LET a == require(Cur, <<"yadm">>, found)
                b == print_separator(a, <<"yadm">>)
            IN  Commit("yadm", b, "pull")
    \/ /\ At("yadm", "pull")
       /\ LET ex == arg(execute(ctx_run_type, <<"yadm">>), "pull") IN
          \E r \in Answers(ex) : Commit("yadm", check_run(Cur, ex, r), "return")

\* fs::metadata(&nix)?.uid() == 0: the owner of the nix binary, or the
\* io::Error of a failed stat
NixOwners == {"root", "user", "error"}

\* The tail of run_nix's probing: the stat of the binary, the platform's
\* own rebuild tool, and the executor `nix upgrade-nix` will run with.
nix_prepare(f, owner, is_nixos, darwin_rebuild) ==
    LET a == fail(f, IF owner = "error" THEN Fatal(<<"fs::metadata">>) ELSE Ok)
        b == IF Failed(a) THEN a ELSE [a EXCEPT !.locals.multi_user = (owner = "root")]
        c == IF target_os = "linux" /\ is_nixos
             THEN fail(b, SkipStep(<<"Nix on NixOS must be upgraded via nixos-rebuild switch">>))
             ELSE b
        d == IF target_os = "macos"
             THEN LET p == caught(require(c, <<"darwin-rebuild">>, darwin_rebuild)) IN
                  IF Failed(c) THEN c
                  ELSE IF darwin_rebuild
                       THEN fail(p, SkipStep(
                              <<"Nix-darwin on macOS must be upgraded via darwin-rebuild switch">>))
                       ELSE p
             ELSE c
    IN  IF ~Failed(d) /\ d.locals.should_self_upgrade /\ d.locals.multi_user
        THEN execute_elevated(d, <<"nix">>)
        ELSE d

nix_begin ==
    /\ Idle
    /\ \E nix, nix_channel, nix_env \in BOOLEAN :
         LET a == require(Cur, <<"nix">>, nix)
             b == require(a, <<"nix-channel">>, nix_channel)
             c == require(b, <<"nix-env">>, nix_env)
         IN  Commit("nix", c, "query")

\* nix-env --query nix, its Result bound to `output`
nix_query ==
    /\ At("nix", "query")
    /\ LET ex == args(Command_new(<<"nix-env">>), <<"--query", "nix">>) IN
       \E r \in Answers(ex), owner \in NixOwners, is_nixos, darwin_rebuild \in BOOLEAN :
          LET output == check_output(Cur, ex, r)
              should_self_upgrade == ~Failed(output)
              a == [caught(output) EXCEPT !.locals.should_self_upgrade = should_self_upgrade]
              b == print_separator(a, <<"Nix">>)
              c == nix_prepare(b, owner, is_nixos, darwin_rebuild)
          IN  Commit("nix", c, IF should_self_upgrade THEN "upgrade_nix" ELSE "channel_update")

\* nix_upgrade_nix with the ownership test inverted
nix_upgrade_nix_swapped ==
    /\ At("nix", "upgrade_nix")
    /\ LET ex == arg(IF ~locals.multi_user THEN elevated(<<"nix">>)
                     ELSE execute(ctx_run_type, <<"nix">>), "upgrade-nix") IN
       \E r \in Answers(ex) : Commit("nix", check_run(Cur, ex, r), "channel_update")

nix_upgrade_nix ==
    /\ At("nix", "upgrade_nix")
    /\ LET ex == arg(IF locals.multi_user THEN elevated(<<"nix">>)
                     ELSE execute(ctx_run_type, <<"nix">>), "upgrade-nix") IN
       \E r \in Answers(ex) : Commit("nix", check_run(Cur, ex, r), "channel_update")

\* nix_channel_update with the Result of `nix-channel --update` dropped
nix_channel_update_unchecked ==
    /\ At("nix", "channel_update")
    /\ LET ex == arg(execute(ctx_run_type, <<"nix-channel">>), "--update") IN
       \E r \in Answers(ex) : Commit("nix", caught(check_run(Cur, ex, r)), "env_upgrade")

nix_channel_update ==
    /\ At("nix", "channel_update")
    /\ LET ex == arg(execute(ctx_run_type, <<"nix-channel">>), "--update") IN
       \E r \in Answers(ex) : Commit("nix", check_run(Cur, ex, r), "env_upgrade")

nix_env_upgrade ==
    /\ At("nix", "env_upgrade")
    /\ LET ex == arg(execute(ctx_run_type, <<"nix-env">>), "--upgrade") IN
       \E r \in Answers(ex) : Commit("nix", check_run(Cur, ex, r), "return")

run_nix == nix_begin \/ nix_query \/ nix_upgrade_nix \/ nix_channel_update \/ nix_env_upgrade

\* The exit code run_asdf takes for "nothing to update"
ASDF_NO_UPDATE == 42

\* asdf_accepts with >= written for ==
asdf_accepts_at_least(e) == success(e) \/ (\E c \in e.code : c >= ASDF_NO_UPDATE)

\* The exit statuses of `asdf update` after which run_asdf goes on
asdf_accepts(e) == success(e) \/ (\E c \in e.code : c = ASDF_NO_UPDATE)

asdf_begin ==
    /\ Idle
    /\ \E found \in BOOLEAN :
         LET a == require(Cur, <<"asdf">>, found)
             b == print_separator(a, <<"asdf">>)
         IN  Commit("asdf", b, "update")

asdf_update ==
    /\ At("asdf", "update")
    /\ LET ex == arg(execute(ctx_run_type, <<"asdf">>), "update") IN
       \E exit_status \in Answers(ex) :
          LET a == spawn_wait(Cur, ex, exit_status)
              b == IF exit_status.kind # "simulated" /\ ~asdf_accepts(exit_status)
                   THEN fail(a, ProcessFailed)
                   ELSE a
          IN  Commit("asdf", b, "plugin_update")

asdf_plugin_update ==
    /\ At("asdf", "plugin_update")
    /\ LET ex == args(execute(ctx_run_type, <<"asdf">>), <<"plugin", "update", "--all">>) IN
       \E r \in Answers(ex) : Commit("asdf", check_run(Cur, ex, r), "return")

run_asdf == asdf_begin \/ asdf_update \/ asdf_plugin_update

run_home_manager ==
    \/ /\ Idle
       /\ \E found \in BOOLEAN :
            LET a == require(Cur, <<"home-manager">>, found)
                b == print_separator(a, <<"home-manager">>)
            IN  Commit("home_manager", b, "switch")
    \/ /\ At("home_manager", "switch")
       /\ LET ex == arg(execute(ctx_run_type, <<"home-manager">>), "switch") IN
          \E r \in Answers(ex) : Commit("home_manager", check_run(Cur, ex, r), "return")

run_tldr ==
    \/ /\ Idle
       /\ \E found \in BOOLEAN :
            LET a == require(Cur, <<"tldr">>, found)
                b == print_separator(a, <<"TLDR">>)
            IN  Commit("tldr", b, "update")
    \/ /\ At("tldr", "update")
       /\ LET ex == arg(execute(ctx_run_type, <<"tldr">>), "--update") IN
          \E r \in Answers(ex) : Commit("tldr", check_run(Cur, ex, r), "return")

run_pearl ==
    \/ /\ Idle
       /\ \E found \in BOOLEAN :
            LET a == require(Cur, <<"pearl">>, found)
                b == print_separator(a, <<"pearl">>)
            IN  Commit("pearl", b, "update")
    \/ /\ At("pearl", "update")
       /\ LET ex == arg(execute(ctx_run_type, <<"pearl">>), "update") IN
          \E r \in Answers(ex) : Commit("pearl", check_run(Cur, ex, r), "return")

\* env::var("SDKMAN_DIR").map(PathBuf::from)
\*     .unwrap_or_else(|_| base_dirs.home_dir().join(".sdkman"))
sdkman_root(e) == IF is_err(e) THEN join(home_dir, ".sdkman") ELSE <<e.value>>

sdkman_init_path(e) == join(join(sdkman_root(e), "bin"), "sdkman-init.sh")

\* sdkman_config_path resolved under the home directory whatever SDKMAN_DIR is
sdkman_config_path_home(e) == join(join(join(home_dir, ".sdkman"), "etc"), "config")

sdkman_config_path(e) == join(join(sdkman_root(e), "etc"), "config")

\* Ini::load_from_file(config)?: a parse or read error, or the value of
\* sdkman_selfupdate_feature in the general section (absent: no such key)
IniResults == {"error", "absent", "true", "false", "True"}

\* selfupdate_enabled with the default of an absent key taken as "true"
selfupdate_enabled_default_true(ini) == IF ini = "absent" THEN "true" ELSE ini

\* .get("sdkman_selfupdate_feature").unwrap_or("false")
selfupdate_enabled(ini) == IF ini = "absent" THEN "false" ELSE ini

\* format!("source {} && sdk <verb>", sdkman_init_path) run by bash -c
sdk_command(verb) ==
    args(execute(ctx_run_type, <<"bash">>),
         <<"-c", "source">> \o sdkman_init_path(locals.env) \o <<"&& sdk">> \o verb)

sdkman_after_upgrade == IF config.cleanup THEN "flush_archives" ELSE "return"

sdkman_begin ==
    /\ Idle
    /\ \E bash, init, cfg \in BOOLEAN, e \in EnvResult({"/opt/sdkman"}), ini \in IniResults :
         LET a == read_env(require(Cur, <<"bash">>, bash), e)
             b == require_path(a, sdkman_init_path(e), init)
             c == print_separator(b, <<"SDKMAN!">>)
             d == require_path(c, sdkman_config_path(e), cfg)
             d1 == IF Failed(d) THEN d ELSE [d EXCEPT !.locals.ini = ini]
             g == fail(d1, IF ini = "error" THEN Fatal(<<"Ini::load_from_file">>) ELSE Ok)
             h == IF Failed(g) THEN g
                  ELSE [g EXCEPT !.locals.selfupdate_enabled = selfupdate_enabled(ini)]
         IN  Commit("sdkman", h,
                    IF selfupdate_enabled(ini) = "true" THEN "selfupdate" ELSE "update")

sdkman_selfupdate ==
    /\ At("sdkman", "selfupdate")
    /\ LET ex == sdk_command(<<"selfupdate">>) IN
       \E r \in Answers(ex) : Commit("sdkman", check_run(Cur, ex, r), "update")

sdkman_update ==
    /\ At("sdkman", "update")
    /\ LET ex == sdk_command(<<"update">>) IN
       \E r \in Answers(ex) : Commit("sdkman", check_run(Cur, ex, r), "upgrade")

sdkman_upgrade ==
    /\ At("sdkman", "upgrade")
    /\ LET ex == sdk_command(<<"upgrade">>) IN
       \E r \in Answers(ex) : Commit("sdkman", check_run(Cur, ex, r), sdkman_after_upgrade)

\* sdkman_flush_archives with a requirement on the archives directory put
\* in front of the command
sdkman_flush_archives_probed ==
    /\ At("sdkman", "flush_archives")
    /\ LET ex == sdk_command(<<"flush", "archives">>) IN
       \E r \in Answers(ex), exists \in BOOLEAN :
          LET a == require_path(Cur, join(sdkman_root(locals.env), "archives"), exists)
          IN  Commit("sdkman", check_run(a, ex, r), "flush_temp")

sdkman_flush_archives ==
    /\ At("sdkman", "flush_archives")
    /\ LET ex == sdk_command(<<"flush", "archives">>) IN
       \E r \in Answers(ex) : Commit("sdkman", check_run(Cur, ex, r), "flush_temp")

sdkman_flush_temp ==
    /\ At("sdkman", "flush_temp")
    /\ LET ex == sdk_command(<<"flush", "temp">>) IN
       \E r \in Answers(ex) : Commit("sdkman", check_run(Cur, ex, r), "return")

run_sdkman ==
    \/ sdkman_begin
    \/ sdkman_selfupdate
    \/ sdkman_update
    \/ sdkman_upgrade
    \/ sdkman_flush_archives
    \/ sdkman_flush_temp

run_bun ==
    \/ /\ Idle
       /\ \E found \in BOOLEAN :
            LET a == require(Cur, <<"bun">>, found)
                b == print_separator(a, <<"Bun">>)
            IN  Commit("bun", b, "upgrade")
    \/ /\ At("bun", "upgrade")
       /\ LET ex == arg(execute(ctx_run_type, <<"bun">>), "upgrade") IN
          \E r \in Answers(ex) : Commit("bun", check_run(Cur, ex, r), "return")

(***************************************************************************)
(* The orchestration loop: after a step has returned, the next one runs.   *)
(* A panic ends the process.                                               *)
(***************************************************************************)

NextStep ==
    /\ pc = "done"
    /\ outcome.kind # "Panic"
    /\ step' = "none"
    /\ pc' = "idle"
    /\ locals' = NoLocals
    /\ probes' = <<>>
    /\ calls' = <<>>
    /\ sink' = <<>>
    /\ outcome' = [kind |-> "None", reason |-> <<>>]
    /\ UNCHANGED ctxvars

Init ==
    /\ run_type \in RunTypes
    /\ sudo \in {None, Some(<<"sudo">>)}
    /\ config \in [cleanup : BOOLEAN, brew_autoremove : BOOLEAN,
                   brew_cask_greedy : BOOLEAN, yes : BOOLEAN]
    /\ target_os \in {"linux", "macos"}
    /\ target_arch \in {"x86_64", "aarch64"}
    /\ step = "none"
    /\ pc = "idle"
    /\ locals = NoLocals
    /\ probes = <<>>
    /\ calls = <<>>
    /\ sink = <<>>
    /\ outcome = [kind |-> "None", reason |-> <<>>]

Next ==
    \/ run_guix
    \/ run_fisher
    \/ run_bashit
    \/ run_oh_my_fish
    \/ run_pkgin
    \/ run_fish_plug
    \/ upgrade_gnome_extensions
    \/ run_brew_formula
    \/ run_brew_cask
    \/ run_nix
    \/ run_yadm
    \/ run_asdf
    \/ run_home_manager
    \/ run_tldr
    \/ run_pearl
    \/ run_sdkman
    \/ run_bun
    \/ NextStep

Spec == Init /\ [][Next]_vars

(***************************************************************************)
(* Properties                                                              *)
(***************************************************************************)

Done == pc = "done"

\* The reason the requirement resolver attaches to a Missing probe
ProbeReason(p) ==
    CASE p.kind = "binary" -> <<"Cannot find in PATH">> \o p.name
      [] p.kind = "path" -> <<"Path doesn't exist">> \o p.name
      [] OTHER -> p.name

\* The call ended without a successful exit (it exited unsuccessfully, was
\* ended by a signal, or could not be spawned).
CallFailed(c) == c.result.kind # "simulated" /\ ~success(c.result)

\* The Result check_run gives for a process result
CheckRunKind(r) ==
    IF r.kind = "simulated" \/ success(r) THEN "Success"
    ELSE IF r.kind = "spawn_failed" THEN "SpawnFailed" ELSE "ProcessFailed"

\* C1: in a dry run (Simulate) no step spawns a process: every command a
\* step issues goes through the run type of the context and is only
\* previewed.
C1_DryRunSpawnsNothing ==
    run_type = "Dry" =>
        \A i \in DOMAIN calls : calls[i].gated /\ calls[i].result = Simulated

\* C2: when the first requirement probe of a step is Missing, the step has
\* ended in Skip with that probe's reason, has printed no separator, has
\* handed nothing to an executor and has spawned nothing, in either run
\* type.
C2_FirstProbeMissingSkips ==
    (Len(probes) >= 1 /\ ~probes[1].found) =>
        /\ Done
        /\ outcome = SkipStep(ProbeReason(probes[1]))
        /\ Len(probes) = 1
        /\ sink = <<>>
        /\ calls = <<>>

C2_Witness ==
    /\ Done
    /\ step = "guix"
    /\ run_type = "Wet"
    /\ Len(probes) = 1
    /\ ~probes[1].found
    /\ outcome.kind = "Skip"

\* C3: in run_asdf in a wet run, once `asdf update` has ended with an exit
\* status: if the status is success or code 42, `asdf plugin update --all`
\* is the next command and the step's result is that command's check_run
\* result; for every other code, and for an end without a code, the step
\* has ended in ProcessFailed with `asdf update` its only command.
C3_AsdfUpdateStatus ==
    (step = "asdf" /\ run_type = "Wet" /\ Len(calls) >= 1
        /\ calls[1].result.kind \in {"exited", "signaled"}) =>
        LET e == calls[1].result IN
        /\ calls[1].argv = <<"asdf", "update">>
        /\ IF e.code = {0} \/ e.code = {42}
           THEN \/ pc = "plugin_update" /\ Len(calls) = 1 /\ ENABLED asdf_plugin_update
                \/ /\ Done
                   /\ Len(calls) = 2
                   /\ calls[2].argv = <<"asdf", "plugin", "update", "--all">>
                   /\ outcome.kind = CheckRunKind(calls[2].result)
           ELSE Done /\ outcome.kind = "ProcessFailed" /\ Len(calls) = 1

C3_Witness ==
    /\ Done
    /\ step = "asdf"
    /\ run_type = "Wet"
    /\ Len(calls) = 2
    /\ calls[1].result.code = {42}
    /\ outcome.kind = "Success"
\* The sequence ends with the given elements.
EndsWith(argv, tail) ==
    /\ Len(argv) >= Len(tail)
    /\ SubSeq(argv, Len(argv) - Len(tail) + 1, Len(argv)) = tail

\* The sub-commands of run_brew_formula under the configuration, in order
BrewFormulaPlan ==
    <<(<<"update">>), <<"upgrade", "--ignore-pinned", "--formula">>>>
        \o (IF config.cleanup THEN <<(<<"cleanup">>)>> ELSE <<>>)
        \o (IF config.brew_autoremove THEN <<(<<"autoremove">>)>> ELSE <<>>)

\* C4: run_brew_formula issues update, upgrade --ignore-pinned --formula,
\* cleanup (if configured), autoremove (if configured) in that order and
\* nothing else (no compensating command); a sub-command is issued only
\* after every earlier one succeeded; the first failure is the step's
\* result and ends the step; the step succeeds only with all of them run.
C4_BrewFormulaStopsAtFirstFailure ==
    step = "brew_formula" =>
        /\ Len(calls) <= Len(BrewFormulaPlan)
        /\ \A i \in DOMAIN calls :
              /\ EndsWith(calls[i].argv, BrewFormulaPlan[i])
              /\ calls[i].via = "check_run"
              /\ i < Len(calls) => ~CallFailed(calls[i])
        /\ (Len(calls) >= 1 /\ CallFailed(calls[Len(calls)])) =>
              Done /\ outcome.kind = CheckRunKind(calls[Len(calls)].result)
        /\ (Done /\ outcome.kind = "Success") => Len(calls) = Len(BrewFormulaPlan)
        /\ (Done /\ outcome.kind \in {"ProcessFailed", "SpawnFailed"}) =>
              Len(calls) >= 1 /\ CallFailed(calls[Len(calls)])

C4_Witness ==
    /\ Done
    /\ step = "brew_formula"
    /\ config.cleanup
    /\ config.brew_autoremove
    /\ Len(calls) = 3
    /\ ~CallFailed(calls[1])
    /\ ~CallFailed(calls[2])
    /\ calls[3].result.code = {1}
    /\ outcome.kind = "ProcessFailed"

\* A call whose Result the step propagates with ?
Propagated(c) ==
    /\ c.via \in {"check_run", "check_output"}
    /\ c.argv # <<"guix", "pull">>
    /\ c.argv # <<"nix-env", "--query", "nix">>

SkipFromProbe ==
    /\ Len(probes) >= 1
    /\ ~probes[Len(probes)].found
    /\ outcome.reason = ProbeReason(probes[Len(probes)])

C7_DryRunPreviewsAndSucceeds ==
    (run_type = "Dry" /\ Done /\ \A i \in DOMAIN probes : probes[i].found) =>
        /\ outcome.kind = "Success"
        /\ \A i \in DOMAIN calls : calls[i].result = Simulated
        /\ Len(SelectSeq(sink, LAMBDA x : x.kind = "preview")) = Len(calls)

\* The first separator a brew step printed
BrewTitle == sink[1].text[1]

\* C8: the title a brew step prints depends on the variant and on which of
\* the two installations exist: with both, MacArm is "Brew (ARM)" and
\* MacIntel is "Brew (Intel)"; with at most one, every variant is "Brew";
\* Path is always "Brew".
C8_BrewStepTitle ==
    (step \in {"brew_formula", "brew_cask"} /\ Len(sink) >= 1) =>
        LET both == locals.intel_exists /\ locals.arm_exists IN
        /\ sink[1].kind = "separator"
        /\ (both /\ locals.variant = "MacArm") => BrewTitle = "Brew (ARM)"
        /\ (both /\ locals.variant = "MacIntel") => BrewTitle = "Brew (Intel)"
        /\ ~both => BrewTitle = "Brew"
        /\ locals.variant = "Path" => BrewTitle = "Brew"

C8_Witness ==
    /\ step = "brew_formula"
    /\ locals.variant = "MacArm"
    /\ locals.intel_exists
    /\ locals.arm_exists
    /\ Len(sink) >= 1
    /\ BrewTitle = "Brew (ARM)"

\* C9: run_pkgin with pkgin present and no elevation command in the context
\* ends in Skip and issues no command.
C9_PkginWithoutSudoSkips ==
    (step = "pkgin" /\ Done /\ ~sudo.some /\ probes[1].found) =>
        outcome.kind = "Skip" /\ calls = <<>>

FisherFile == <<"$HOME", ".config/fish/functions/fisher.fish">>

\* What an environment variable steers in run_fisher and run_sdkman, with
\* unset the env::var states in which the variable counts as unset:
\* run_fisher requires the fisher.fish file exactly then, run_sdkman
\* resolves the init script and the config file under ~/.sdkman then and
\* under the variable's value otherwise, and a step of an unset variable
\* ends in a failure only after all its probes were Found and a command or
\* the config parse failed.
EnvSteers(unset) ==
    /\ (step = "fisher" /\ Len(probes) >= 1 /\ probes[1].found) =>
          IF locals.env.state \in unset
          THEN /\ Len(probes) = 2
               /\ probes[2].kind = "path"
               /\ probes[2].name = FisherFile
               /\ ~probes[2].found => Done /\ outcome.kind = "Skip" /\ calls = <<>>
          ELSE Len(probes) = 1 /\ pc # "done" => pc = "update"
    /\ (step = "sdkman" /\ Len(probes) >= 1 /\ probes[1].found) =>
          LET root == IF locals.env.state \in unset THEN <<"$HOME", ".sdkman">>
                      ELSE <<locals.env.value>> IN
          /\ Len(probes) >= 2
          /\ probes[2].name = root \o <<"bin", "sdkman-init.sh">>
          /\ Len(probes) >= 3 => probes[3].name = root \o <<"etc", "config">>
    /\ (step \in {"fisher", "sdkman"} /\ locals.env.state \in unset /\ Done
            /\ outcome.kind \notin {"Success", "Skip"}) =>
          /\ \A i \in DOMAIN probes : probes[i].found
          /\ outcome.kind = "Fatal" => step = "sdkman" /\ Len(probes) = 3 /\ calls = <<>>
          /\ outcome.kind # "Fatal" =>
                /\ Len(calls) >= 1
                /\ outcome.kind = CheckRunKind(calls[Len(calls)].result)

SdkmanPlan ==
    (IF locals.ini = "true" THEN <<(<<"&& sdk", "selfupdate">>)>> ELSE <<>>)
        \o <<(<<"&& sdk", "update">>), <<"&& sdk", "upgrade">>>>
        \o (IF config.cleanup
            THEN <<(<<"&& sdk", "flush", "archives">>), <<"&& sdk", "flush", "temp">>>>
            ELSE <<>>)

\* C11: in run_sdkman with bash, the init script and the config file
\* present: a config that cannot be loaded ends the step in Fatal with no
\* sub-command issued; otherwise the sub-commands are sdk selfupdate (only
\* for the key equal to "true"; an absent key is "false"), sdk update, sdk
\* upgrade, then sdk flush archives and sdk flush temp (only with cleanup),
\* in that order, each issued only after the earlier ones succeeded, the
\* first failure ending the step.
C11_SdkmanOrder ==
    (step = "sdkman" /\ Len(probes) = 3 /\ \A i \in DOMAIN probes : probes[i].found) =>
        IF locals.ini = "error"
        THEN Done /\ outcome.kind = "Fatal" /\ calls = <<>>
        ELSE /\ outcome.kind \notin {"Fatal", "Skip"}
             /\ Len(calls) <= Len(SdkmanPlan)
             /\ \A i \in DOMAIN calls :
                   /\ EndsWith(calls[i].argv, SdkmanPlan[i])
                   /\ SubSeq(calls[i].argv, 1, 3) = <<"bash", "-c", "source">>
                   /\ Len(calls[i].argv) = 3 + Len(probes[2].name) + Len(SdkmanPlan[i])
                   /\ calls[i].via = "check_run"
                   /\ calls[i].gated
                   /\ i < Len(calls) => ~CallFailed(calls[i])
             /\ (Len(calls) >= 1 /\ CallFailed(calls[Len(calls)])) =>
                   Done /\ outcome.kind = CheckRunKind(calls[Len(calls)].result)
             /\ (Done /\ outcome.kind = "Success") => Len(calls) = Len(SdkmanPlan)
             /\ ~Done => Len(calls) < Len(SdkmanPlan)

C11_Witness ==
    /\ Done
    /\ step = "sdkman"
    /\ locals.ini = "absent"
    /\ config.cleanup
    /\ Len(calls) = 4
    /\ EndsWith(calls[1].argv, <<"&& sdk", "update">>)
    /\ EndsWith(calls[4].argv, <<"&& sdk", "flush", "temp">>)
    /\ outcome.kind = "Success"
\* run_nix with nix, nix-channel and nix-env found, the query made, and no
\* stop for NixOS or nix-darwin
NixUpgrading ==
    /\ step = "nix"
    /\ Len(calls) >= 1
    /\ \A i \in 1..3 : probes[i].found
    /\ ~(outcome.kind = "Skip" /\ outcome.reason \in
            {<<"Nix on NixOS must be upgraded via nixos-rebuild switch">>,
             <<"Nix-darwin on macOS must be upgraded via darwin-rebuild switch">>})

\* The `nix-env --query nix` probe command succeeded
NixQueried == ~CallFailed(calls[1])

\* `nix upgrade-nix` through the elevated executor, or through the plain one
NixUpgradeArgv(is_elevated) ==
    (IF is_elevated THEN sudo.val ELSE <<>>) \o <<"nix", "upgrade-nix">>

\* The sub-commands of run_nix after the query
NixPlan ==
    (IF NixQueried THEN <<NixUpgradeArgv(locals.multi_user)>> ELSE <<>>)
        \o <<(<<"nix-channel", "--update">>), <<"nix-env", "--upgrade">>>>

\* The sub-commands issued so far, after the query
NixIssued == Tail(calls)

\* The sub-commands issued so far are the first ones of the plan, each
\* issued after the earlier ones succeeded, the first failure ending the step
\* and nothing else ending it before the last one
NixFollowsPlan ==
    /\ Len(NixIssued) <= Len(NixPlan)
    /\ \A i \in DOMAIN NixIssued :
          /\ NixIssued[i].argv = NixPlan[i]
          /\ NixIssued[i].gated
          /\ NixIssued[i].via = "check_run"
          /\ i < Len(NixIssued) => ~CallFailed(NixIssued[i])
    /\ (NixIssued # <<>> /\ CallFailed(NixIssued[Len(NixIssued)])) =>
          Done /\ outcome.kind = CheckRunKind(NixIssued[Len(NixIssued)].result)
    /\ (Done /\ (NixIssued = <<>> \/ ~CallFailed(NixIssued[Len(NixIssued)]))) =>
          Len(NixIssued) = Len(NixPlan) /\ outcome.kind = "Success"
    /\ ~Done => Len(NixIssued) < Len(NixPlan)

\* C12 (as stated): in run_nix with the three programs found and no NixOS or
\* nix-darwin stop, nix upgrade-nix is the next sub-command exactly when the
\* query succeeded, elevated exactly when the nix binary is owned by uid 0,
\* and nix-channel --update and nix-env --upgrade follow in that order, each
\* only after the earlier sub-commands succeeded.
C12_UpgradeNixIffQuerySucceeded ==
    NixUpgrading => NixFollowsPlan

\* The step stopped between the query and the first sub-command
NixStopped == Done /\ outcome.kind \in {"Fatal", "Skip"}

\* C12 (amended): as stated, unless the step stops between the query and the
\* first sub-command: a failed stat of the nix binary ends it in Fatal, and a
\* successful query of a root-owned nix without an elevation command in the
\* context ends it in Skip, in both cases with no sub-command issued.
C12_UpgradeNixUnlessStopped ==
    NixUpgrading =>
        IF NixStopped
        THEN /\ NixIssued = <<>>
             /\ outcome.kind = "Fatal" => outcome = Fatal(<<"fs::metadata">>)
             /\ outcome.kind = "Skip" =>
                   /\ NixQueried /\ locals.multi_user /\ ~sudo.some
                   /\ probes[Len(probes)].kind = "option"
                   /\ ~probes[Len(probes)].found
        ELSE /\ NixFollowsPlan
             /\ (NixQueried /\ locals.multi_user) => sudo.some

C12_Witness ==
    /\ Done
    /\ NixUpgrading
    /\ NixQueried
    /\ locals.multi_user
    /\ Len(calls) = 4
    /\ calls[2].argv = <<"sudo", "nix", "upgrade-nix">>
    /\ calls[4].argv = <<"nix-env", "--upgrade">>
    /\ outcome.kind = "Success"
\* The head of every brew command line, by variant and architecture
BrewHead ==
    CASE locals.variant = "MacIntel" /\ target_arch = "aarch64" ->
            <<"arch", "-x86_64", "/usr/local/bin/brew">>
      [] locals.variant = "MacArm" /\ target_arch = "x86_64" ->
            <<"arch", "-arm64e", "/opt/homebrew/bin/brew">>
      [] locals.variant = "MacIntel" -> <<"/usr/local/bin/brew">>
      [] locals.variant = "MacArm" -> <<"/opt/homebrew/bin/brew">>
      [] OTHER -> <<"brew">>

\* The first word a brew step puts after the head
BrewVerbs == {"update", "upgrade", "cleanup", "autoremove", "--repository", "cu"}

\* C13: every command of a brew step starts with `arch -x86_64
\* /usr/local/bin/brew` for MacIntel on aarch64, `arch -arm64e
\* /opt/homebrew/bin/brew` for MacArm on x86_64, and the variant's own binary
\* alone otherwise, whatever the run mode; nothing is spawned before the
\* first check of a built command; the command runs under the run mode
\* handed to execute (the context's, but Wet for the --repository query).
C13_BrewExecute ==
    step \in {"brew_formula", "brew_cask"} =>
        /\ pc \in {"update", "repository"} => calls = <<>>
        /\ \A i \in DOMAIN calls :
              LET c == calls[i]
                  wet == step = "brew_cask" /\ i = 1
              IN  /\ Len(c.argv) > Len(BrewHead)
                  /\ SubSeq(c.argv, 1, Len(BrewHead)) = BrewHead
                  /\ c.argv[Len(BrewHead) + 1] \in BrewVerbs
                  /\ c.gated <=> ~wet
                  /\ c.result = Simulated <=> (~wet /\ run_type = "Dry")

C13_Witness ==
    /\ Done
    /\ step = "brew_cask"
    /\ locals.variant = "MacArm"
    /\ target_arch = "x86_64"
    /\ run_type = "Dry"
    /\ Len(calls) >= 2
    /\ calls[1].argv = <<"arch", "-arm64e", "/opt/homebrew/bin/brew",
                         "--repository", "buo/cask-upgrade">>
    /\ calls[1].result.kind = "exited"
    /\ SubSeq(calls[2].argv, 1, 3) = <<"arch", "-arm64e", "/opt/homebrew/bin/brew">>
    /\ calls[2].result = Simulated
\* The step has issued a sub-command through the run type of the context
HasGated == \E i \in DOMAIN calls : calls[i].gated

\* C14: in every step the requirement probes and the Skip exits come before
\* the first sub-command issued through the run type of the context: a step
\* that has issued one makes no further probe and ends in Success, in
\* ProcessFailed or with another propagated error (a process that could not
\* be spawned included), never in Skip or a panic; so a step that ends in
\* Skip has issued none.
C14_SkipBeforeFirstGatedCall ==
    [][/\ HasGated' =>
             outcome'.kind \in {"None", "Success", "ProcessFailed", "SpawnFailed", "Fatal"}
       /\ (HasGated /\ step' = step) => probes' = probes
       /\ (pc' = "done" /\ outcome'.kind = "Skip") =>
             \A i \in DOMAIN calls' : ~calls'[i].gated]_vars

C14_Witness ==
    /\ Done
    /\ outcome.kind = "Skip"
    /\ step \in {"guix", "nix"}
    /\ calls # <<>>
    /\ ~HasGated

====
